---- MODULE Spec2Model ----
(***************************************************************************)
(* Remote inference over a ZeroMQ request/reply channel:                   *)
(*   lerobot/remote/client.py   RemoteInferenceClient (REQ socket)         *)
(*   lerobot/remote/server.py   RemoteInferenceServer (REP socket)         *)
(* The client's __call__ and the server's start() loop are modelled step   *)
(* by step at their socket operations; the sockets follow libzmq's strict  *)
(* REQ and REP state machines, since neither endpoint sets a relaxing      *)
(* option.                                                                 *)
(***************************************************************************)
EXTENDS Integers, Sequences, FiniteSets, TLC

\* ------------------------------------------------------------------ bounds
MaxCalls == 2       \* __call__ invocations made on the one client
MaxForeign == 1     \* messages sent to the server by peers other than the client
MaxFaults == 1      \* channel-level faults (non-timeout ZMQError) injected in a run
MaxCloses == 2      \* close() invocations made on the one client
MaxRank == 2        \* number of dimensions of an observation channel's array
MaxDim == 2         \* extent of one dimension of an observation channel's array
MaxRetriesCfg == 3  \* largest RemotePolicyConfig.max_retries tried
MaxSelects == 2     \* select_action invocations made on the one RemotePolicyClient
MaxTicks == 3       \* control-loop iterations a script's run lasts at most

\* -------------------------------------------------------- program constants
MaxRetries == 3         \* for attempt in range(3)
ActionFeatureDim == 2   \* PolicyFeature(type=ACTION, shape=(2,)) of the timeout test
BackoffBaseTenths == 1      \* time.sleep(0.1 * ...), in tenths of a second
DefaultBackoffTenths == 5   \* backoff_factor: float = 0.5, in tenths of a second
timeout_ms == 1000          \* RemoteInferenceConfig.timeout_ms: int = 1000
DefaultMaxRetries == 3      \* RemotePolicyConfig.max_retries: int = 3

\* The actuator's declared command channels, in order (robot stub's
\* action_features keys).
feature_names == <<"shoulder", "gripper">>

None == "None"

\* ------------------------------------------------------------------ values
\* A numpy array: its shape and its elements in row-major order.
NdArray(shape, data) == [kind |-> "array", shape |-> shape, data |-> data, names |-> <<>>]
\* A dict of command channel -> float, in insertion order.
Mapping(names, data) == [kind |-> "map", shape |-> <<>>, data |-> data, names |-> names]
NoAction == [kind |-> "none", shape |-> <<>>, data |-> <<>>, names |-> <<>>]

\* np.zeros(()): a zero-dimensional array, shape (), holding one element 0.0
NpZerosScalar == NdArray(<<>>, <<0>>)
\* np.array(list) of a flat list
NpArray(list) == NdArray(<<Len(list)>>, list)

\* Observations handed to __call__: a set of <<channel, list>> pairs.
Observations ==
    { {},
      { <<"agent_pos", <<1, 2, 3>>>> } }

\* ----------------------------------------------------------- JSON documents
\* A document on the wire.  json: "object" (a mapping), "array" (a document
\* that is not a mapping) or "invalid" (bytes that do not decode).  keys is
\* the set of top-level keys of an object.
ReqDoc(obs, task, robot_type) ==
    [json |-> "object", obs |-> obs, task |-> task, robot_type |-> robot_type]
ReqArray == [json |-> "array", obs |-> {}, task |-> None, robot_type |-> None]
ReqInvalid == [json |-> "invalid", obs |-> {}, task |-> None, robot_type |-> None]

SuccessDoc(action) ==
    [json |-> "object", keys |-> {"action", "status"}, status |-> "success",
     action |-> action, error |-> None]
ErrorDoc(msg) ==
    [json |-> "object", keys |-> {"status", "error"}, status |-> "error",
     action |-> <<>>, error |-> msg]
\* replies a conforming server never sends
ReplyArray == [json |-> "array", keys |-> {}, status |-> None, action |-> <<>>, error |-> None]
ReplyInvalid == [json |-> "invalid", keys |-> {}, status |-> None, action |-> <<>>, error |-> None]
ReplyNoAction ==
    [json |-> "object", keys |-> {"status"}, status |-> "success", action |-> <<>>, error |-> None]
\* a success reply whose action is shorter than the command-channel list
ReplyShortAction ==
    [json |-> "object", keys |-> {"action", "status"}, status |-> "success",
     action |-> <<9>>, error |-> None]
MalformedReplies == {ReplyArray, ReplyInvalid, ReplyNoAction, ReplyShortAction}

VARIABLES
    config,            \* RemoteInferenceConfig: robot_config given?, text_prompt
    cpc,               \* client: position in __call__
    attempt,           \* client: loop variable of the retry loop
    obs_serializable,  \* client: the wire request built by this call
    reqState,          \* client REQ socket: "ready" (may send) | "awaiting" (must recv)
    result,            \* client: value returned by the last call
    raised,            \* client: an exception escaped __call__
    call,              \* client: what happened during the current call
    ncalls,            \* number of calls started
    c2s,               \* requests in flight to the server: <<sender, doc, arrival number>>
    narrived,          \* number of requests put on the wire so far
    s2c,               \* replies in flight to the client: <<doc, arrival number of the request answered>>
    spc,               \* server: position in start()
    repState,          \* server REP socket: "recv" (must recv) | "send" (must send)
    observation,       \* server: <<sender, doc, arrival number>> received in this iteration
    policy,            \* server: self.policy (instance, reset() calls, invocations)
    serverSock,        \* server: "open" | "closed" (socket closed and context terminated)
    served,            \* server: one record per request recv_json returned
    stopCause,         \* server: why start() ended
    nforeign,          \* messages sent by foreign peers
    nfaults,           \* faults injected
    socket,            \* client: self.socket, "none" | "open" | "closed"
    context,           \* client: self.context, "none" | "open" | "terminated"
    built,             \* client: how the constructor ended
    closes,            \* client: the close() calls made
    rt,                \* one observation on its way through encode and decode
    rpc,               \* the RemotePolicyClient (HTTP) and its configuration
    run,               \* scripts/run.py: one execution of main
    rc                 \* scripts/remote_client.py: one execution of main

cvars == <<cpc, attempt, obs_serializable, reqState, result, raised, call, ncalls>>
svars == <<spc, repState, observation, served, stopCause, policy, serverSock>>
lvars == <<socket, context, built, closes>>
mainvars == <<lvars, config, cvars, c2s, narrived, s2c, svars, nforeign, nfaults>>
aux == <<rt, rpc, run, rc>>
vars == <<aux, mainvars>>

NewCall == [sent |-> 0, timeouts |-> 0, waits |-> <<>>, exit |-> "running",
            reply |-> None, replyAt |-> 0, sentAtReply |-> 0, freshStart |-> TRUE,
            fault |-> FALSE, badSend |-> FALSE, reqSeq |-> 0, replyTo |-> 0,
            action |-> <<>>]

\* ------------------------------------------------------------------ client
\* client.py 39-44: the wire request
BuildRequest(obs, cfg) ==
    ReqDoc(obs, cfg.text_prompt, IF cfg.robot THEN "so100" ELSE None)

\* client.py 60-65: which handler takes an exception raised in the try block
HandlerOnlyAgain(exc) == IF exc = "Again" THEN "retry" ELSE "propagate"
HandlerRetryServerError(exc) ==
    IF exc \in {"Again", "RuntimeError"} THEN "retry" ELSE "break"
Handler(exc) == IF exc = "Again" THEN "retry" ELSE "break"

\* client.py 62: time.sleep(0.1 * 2 ** attempt), in tenths of a second
RECURSIVE Pow2(_)
Pow2(n) == IF n = 0 THEN 1 ELSE 2 * Pow2(n - 1)
BackoffOneBased(k) == BackoffBaseTenths * Pow2(k + 1)
Backoff(k) == BackoffBaseTenths * Pow2(k)

\* client.py 66-70: the neutral default
Fallback(stub) ==
    IF stub THEN Mapping(feature_names, [i \in 1..Len(feature_names) |-> 0])
    ELSE NpZerosScalar

\* client.py 51-59: what the try block does with a decoded response
ProcessResponseTruncating(response, stub) ==
    IF response.json # "object" THEN [exc |-> "AttributeError", value |-> NoAction]
    ELSE IF response.status # "success" THEN [exc |-> "RuntimeError", value |-> NoAction]
    ELSE IF "action" \notin response.keys THEN [exc |-> "KeyError", value |-> NoAction]
    ELSE IF Len(response.action) < Len(feature_names)
         THEN [exc |-> "IndexError", value |-> NoAction]
    ELSE IF stub
         THEN [exc |-> "none",
               value |-> Mapping(feature_names,
                            [i \in 1..Len(feature_names) |-> response.action[i]])]
         ELSE [exc |-> "none",
               value |-> NpArray(SubSeq(response.action, 1, Len(feature_names)))]
ProcessResponseReversed(response, stub) ==
    IF response.json # "object" THEN [exc |-> "AttributeError", value |-> NoAction]
    ELSE IF response.status # "success" THEN [exc |-> "RuntimeError", value |-> NoAction]
    ELSE IF "action" \notin response.keys THEN [exc |-> "KeyError", value |-> NoAction]
    ELSE IF stub
         THEN IF Len(response.action) < Len(feature_names)
              THEN [exc |-> "IndexError", value |-> NoAction]
              ELSE [exc |-> "none",
                    value |-> Mapping(feature_names,
                                 [i \in 1..Len(feature_names) |->
                                      response.action[Len(feature_names) + 1 - i]])]
         ELSE [exc |-> "none", value |-> NpArray(response.action)]
ProcessResponse(response, stub) ==
    IF response.json # "object" THEN [exc |-> "AttributeError", value |-> NoAction]
    ELSE IF response.status # "success" THEN [exc |-> "RuntimeError", value |-> NoAction]
    ELSE IF "action" \notin response.keys THEN [exc |-> "KeyError", value |-> NoAction]
    ELSE IF stub
         THEN IF Len(response.action) < Len(feature_names)
              THEN [exc |-> "IndexError", value |-> NoAction]
              ELSE [exc |-> "none",
                    value |-> Mapping(feature_names,
                                 [i \in 1..Len(feature_names) |-> response.action[i]])]
         ELSE [exc |-> "none", value |-> NpArray(response.action)]

\* client.py 36-47: entering __call__
ClientCall(obs) ==
    /\ cpc \in {"idle", "done"}
    /\ built.done /\ built.exc = None
    /\ ~raised
    /\ ncalls < MaxCalls
    /\ ncalls' = ncalls + 1
    /\ obs_serializable' = BuildRequest(obs, config)
    /\ attempt' = 0
    /\ cpc' = "send"
    /\ result' = NoAction
    /\ call' = [NewCall EXCEPT !.freshStart = (reqState = "ready")]
    /\ UNCHANGED <<aux, lvars, config, reqState, raised, c2s, narrived, s2c, svars, nforeign, nfaults>>

\* The end of one pass through the try block with exception exc (client.py
\* 60-70): retry with backoff, or leave the loop and return the fallback, or
\* (were no handler to match) let the exception escape.
AfterException(exc, c) ==
    LET h == Handler(exc) IN
    IF h = "propagate"
    THEN /\ raised' = TRUE
         /\ cpc' = "done"
         /\ call' = [c EXCEPT !.exit = exc]
         /\ UNCHANGED <<attempt, result>>
    ELSE IF h = "retry" /\ attempt + 1 < MaxRetries
    THEN /\ attempt' = attempt + 1
         /\ cpc' = "send"
         /\ call' = [c EXCEPT !.waits = Append(@, Backoff(attempt))]
         /\ UNCHANGED <<raised, result>>
    ELSE /\ cpc' = "done"
         /\ result' = Fallback(config.robot)
         /\ call' = [c EXCEPT !.exit = IF h = "retry" THEN "exhausted" ELSE exc,
                              !.waits = IF h = "retry" THEN Append(@, Backoff(attempt)) ELSE @]
         /\ UNCHANGED <<raised, attempt>>

\* client.py 27: context.socket(zmq.REQ) with no relaxing option set. A strict
\* REQ socket accepts a send only when no reply is outstanding.
ReqMaySendRelaxed(state) == TRUE
ReqMaySend(state) == state = "ready"

\* client.py 49: self.socket.send_json(obs_serializable) on the REQ socket.
\* A strict REQ socket refuses a send while a reply is outstanding (EFSM).
ClientSendOk ==
    /\ cpc = "send"
    /\ socket = "open"
    /\ ReqMaySend(reqState)
    /\ narrived' = narrived + 1
    /\ c2s' = Append(c2s, <<"client", obs_serializable, narrived + 1>>)
    /\ reqState' = "awaiting"
    /\ cpc' = "recv"
    /\ call' = [call EXCEPT !.sent = @ + 1, !.reqSeq = narrived + 1]
    /\ UNCHANGED <<aux, lvars, config, attempt, obs_serializable, result, raised, ncalls, s2c, svars,
                   nforeign, nfaults>>

ClientSendRefused ==
    /\ cpc = "send"
    /\ socket = "open"
    /\ ~ReqMaySend(reqState)
    /\ AfterException("ZMQError", [call EXCEPT !.badSend = TRUE])
    /\ UNCHANGED <<aux, lvars, config, obs_serializable, reqState, ncalls, c2s, narrived, s2c, svars,
                   nforeign, nfaults>>

\* a channel-level send failure (for instance a terminated context)
ClientSendFault ==
    /\ cpc = "send"
    /\ socket = "open"
    /\ reqState = "ready"
    /\ nfaults < MaxFaults
    /\ nfaults' = nfaults + 1
    /\ AfterException("ZMQError", [call EXCEPT !.fault = TRUE])
    /\ UNCHANGED <<aux, lvars, config, obs_serializable, reqState, ncalls, c2s, narrived, s2c, svars, nforeign>>

\* client.py 50-59: recv_json returns the reply that has arrived
ClientRecvReply ==
    /\ cpc = "recv"
    /\ s2c # <<>>
    /\ LET response == Head(s2c)[1]
           c == [call EXCEPT !.reply = IF response.json = "object" THEN response.status
                                       ELSE response.json,
                             !.action = response.action,
                             !.replyTo = Head(s2c)[2],
                             !.replyAt = attempt + 1,
                             !.sentAtReply = call.sent]
           r == ProcessResponse(response, config.robot)
       IN /\ s2c' = Tail(s2c)
          /\ reqState' = "ready"
          /\ IF response.json = "invalid"
             THEN AfterException("ValueError", c)
             ELSE IF r.exc # "none"
             THEN AfterException(r.exc, c)
             ELSE /\ result' = r.value
                  /\ cpc' = "done"
                  /\ call' = [c EXCEPT !.exit = "success"]
                  /\ UNCHANGED <<attempt, raised>>
    /\ UNCHANGED <<aux, lvars, config, obs_serializable, ncalls, c2s, narrived, svars, nforeign, nfaults>>

\* client.py 28: setsockopt(zmq.RCVTIMEO, config.timeout_ms). A receive gives
\* up with zmq.error.Again after ms milliseconds; -1 means wait without limit.
RecvBlocksForever(ms) == FALSE
RecvTimesOut(ms) == ms >= 0

\* client.py 50, 60-62: no reply within RCVTIMEO, recv_json raises zmq.error.Again
ClientRecvTimeout ==
    /\ cpc = "recv"
    /\ RecvTimesOut(timeout_ms)
    /\ AfterException("Again", [call EXCEPT !.timeouts = @ + 1])
    /\ UNCHANGED <<aux, lvars, config, obs_serializable, reqState, ncalls, c2s, narrived, s2c, svars,
                   nforeign, nfaults>>

\* client.py 50, 63-65: recv_json fails with a ZMQError other than Again
ClientRecvFault ==
    /\ cpc = "recv"
    /\ nfaults < MaxFaults
    /\ nfaults' = nfaults + 1
    /\ AfterException("ZMQError", [call EXCEPT !.fault = TRUE])
    /\ UNCHANGED <<aux, lvars, config, obs_serializable, reqState, ncalls, c2s, narrived, s2c, svars, nforeign>>

\* ------------------------------------------------- encode and decode
\* Values of the observation on the client, on the wire and on the server:
\* a numpy array, a Python number or a Python string
NdValue(shape, data) == [kind |-> "ndarray", shape |-> shape, data |-> data, text |-> ""]
PyNumber(v) == [kind |-> "number", shape |-> <<>>, data |-> <<v>>, text |-> ""]
PyStr(str) == [kind |-> "str", shape |-> <<>>, data |-> <<>>, text |-> str]
\* JSON nodes: a number, a string, a list of nodes (send_json / recv_json carry
\* these unchanged)
JNum(v) == [t |-> "num", v |-> v, items |-> <<>>, text |-> ""]
JStr(str) == [t |-> "str", v |-> 0, items |-> <<>>, text |-> str]
JList(items) == [t |-> "list", v |-> 0, items |-> items, text |-> ""]
\* Python's None where a JSON node is expected
JNone == [t |-> "null", v |-> 0, items |-> <<>>, text |-> ""]

RECURSIVE Prod(_)
Prod(shape) == IF shape = <<>> THEN 1 ELSE Head(shape) * Prod(Tail(shape))

\* numpy.ndarray.tolist(): nested lists, row-major; a 0-d array gives a number
RECURSIVE ToList(_, _)
ToList(shape, data) ==
    IF shape = <<>> THEN JNum(data[1])
    ELSE LET size == Prod(Tail(shape)) IN
         JList([i \in 1..Head(shape) |->
                   ToList(Tail(shape), SubSeq(data, (i - 1) * size + 1, i * size))])
tolist(value) == ToList(value.shape, value.data)

\* numpy.array(nested list): the shape is read off the nesting
RECURSIVE ShapeOf(_)
ShapeOf(node) ==
    IF node.t # "list" THEN <<>>
    ELSE IF Len(node.items) = 0 THEN <<0>>
    ELSE <<Len(node.items)>> \o ShapeOf(node.items[1])
RECURSIVE Flatten(_)
RECURSIVE FlattenAll(_)
FlattenAll(items) ==
    IF Len(items) = 0 THEN <<>> ELSE Flatten(Head(items)) \o FlattenAll(Tail(items))
Flatten(node) == IF node.t # "list" THEN <<node.v>> ELSE FlattenAll(node.items)
np_array(node) == NdValue(ShapeOf(node), Flatten(node))

\* client.py 39-44: arrays to lists, then task and robot_type attached
Encode(observation_, cfg) ==
    LET keys == DOMAIN observation_
                  \cup (IF cfg.text_prompt # None THEN {"task"} ELSE {})
                  \cup (IF cfg.robot THEN {"robot_type"} ELSE {})
    IN [k \in keys |->
           IF k = "robot_type" /\ cfg.robot THEN JStr("so100")
           ELSE IF k = "task" /\ cfg.text_prompt # None THEN JStr(cfg.text_prompt)
           ELSE tolist(observation_[k])]

\* server.py 58-60: every key but "task"; lists to arrays, anything else as it is
\* server.py 58: task_prompt = observation.get("task", None)
task_prompt(wire) == IF "task" \in DOMAIN wire THEN wire["task"] ELSE JNone

Decode(wire) ==
    [k \in DOMAIN wire \ {"task"} |->
        IF wire[k].t = "list" THEN np_array(wire[k])
        ELSE IF wire[k].t = "str" THEN PyStr(wire[k].text)
        ELSE PyNumber(wire[k].v)]

\* the arrays of every shape up to MaxRank dimensions of extent up to MaxDim,
\* filled with 1, 2, 3, ...
RTShapes == UNION { [1..r -> 0..MaxDim] : r \in 0..MaxRank }
RTArrays == { NdValue(sh, [i \in 1..Prod(sh) |-> i]) : sh \in RTShapes }
RTObservations ==
    UNION { [K -> RTArrays] : K \in { {"agent_pos"}, {"agent_pos", "image"},
                                       {"agent_pos", "task"} } }

RTIdle == [pc |-> "idle", obs |-> <<>>, wire |-> <<>>, decoded |-> <<>>, task |-> JNone,
           processed |-> [exc |-> None, value |-> <<>>]]

EncodeStep ==
    /\ rt.pc = "obs"
    /\ rt' = [rt EXCEPT !.pc = "wire", !.wire = Encode(rt.obs, config)]
    /\ UNCHANGED <<mainvars, rpc, run, rc>>

DecodeStep ==
    /\ rt.pc = "wire"
    /\ rt' = [rt EXCEPT !.pc = "decoded", !.decoded = Decode(rt.wire),
                         !.task = task_prompt(rt.wire)]
    /\ UNCHANGED <<mainvars, rpc, run, rc>>

\* torch.from_numpy(a).float(): a tensor of the array's shape and numbers
Tensor(a) == [kind |-> "tensor", shape |-> a.shape, data |-> a.data, text |-> ""]

\* lerobot.common.envs.utils.preprocess_observation: the agent_pos array
\* becomes the tensor observation.state, the policy's input name; an agent_pos
\* that is no array cannot be converted; other channels are not policy inputs
preprocess_observation(obs_np) ==
    IF "agent_pos" \notin DOMAIN obs_np THEN [exc |-> "KeyError", value |-> <<>>]
    ELSE IF obs_np["agent_pos"].kind # "ndarray" THEN [exc |-> "TypeError", value |-> <<>>]
    ELSE [exc |-> None,
          value |-> [k \in {"observation.state"} |-> Tensor(obs_np["agent_pos"])]]

\* server.py 91-105: _process_observation: the task is popped, lists become
\* arrays, the arrays are preprocessed to tensors (the move to the device
\* changes no value) and the task is put back when it is not None
process_observation_dropping_task(wire) ==
    preprocess_observation(Decode(wire))
process_observation(wire) ==
    LET obs_tensor == preprocess_observation(Decode(wire)) IN
    IF obs_tensor.exc # None \/ task_prompt(wire) = JNone THEN obs_tensor
    ELSE [exc |-> None,
          value |-> [k \in DOMAIN obs_tensor.value \cup {"task"} |->
                        IF k = "task" THEN task_prompt(wire) ELSE obs_tensor.value[k]]]

ProcessObservationStep ==
    /\ rt.pc = "wire"
    /\ rt' = [rt EXCEPT !.pc = "processed", !.processed = process_observation(rt.wire)]
    /\ UNCHANGED <<mainvars, rpc, run, rc>>

\* ---------------------------------------------------- RemotePolicyClient
\* remote_policy_client.py 17-31 and 48-54: the configuration (backoff_factor
\* in tenths of a second) and the client as __init__ leaves it
RpcNew(max_retries, backoff_factor) ==
    [max_retries |-> max_retries, backoff_factor |-> backoff_factor,
     pc |-> "idle", attempt |-> 0, posts |-> 0, delays |-> <<>>, succeeded |-> FALSE,
     outcome |-> "none", nselect |-> 0,
     closed |-> FALSE, session |-> "open", sessionCloses |-> 0, closeLog |-> <<>>,
     scope |-> "with"]

BackoffFactors == {0, BackoffBaseTenths, DefaultBackoffTenths}
RpcConfigs ==
    { RpcNew(m, bf) : m \in 0..MaxRetriesCfg, bf \in BackoffFactors }

\* remote_policy_client.py 86: for attempt in range(1, self.config.max_retries + 1)
AttemptsOneMore(max_retries) == 1..(max_retries + 1)
Attempts(max_retries) == 1..max_retries

\* remote_policy_client.py 93: wait = backoff_factor * (2 ** (attempt - 1))
WaitLinear(backoff_factor, attempt_) == backoff_factor * attempt_
Wait(backoff_factor, attempt_) == backoff_factor * Pow2(attempt_ - 1)
\* remote_policy_client.py 94: jitter = random.uniform(0, wait); the two ends
\* and the middle of the interval stand for the draw
Jitters(wait) == {0, wait \div 2, wait}

\* remote_policy_client.py 102-121: what select_action makes of the response
\* of the POST that succeeded
Responses == {"action", "invalid_json", "no_action", "bad_action"}
ResponseOutcome(resp) ==
    IF resp = "action" THEN "returned"
    ELSE IF resp = "invalid_json" THEN "RuntimeError: invalid JSON"
    ELSE IF resp = "no_action" THEN "KeyError"
    ELSE "RuntimeError: action tensor"

\* remote_policy_client.py 62-86: select_action up to the loop; with no
\* attempt to make, the loop's else branch raises at once (98-100)
RpcSelect ==
    /\ rpc.pc \in {"idle", "done"}
    /\ rpc.scope = "with"
    /\ rpc.nselect < MaxSelects
    /\ rpc' = [rpc EXCEPT !.nselect = @ + 1, !.attempt = 1, !.posts = 0, !.delays = <<>>,
                          !.succeeded = FALSE,
                          !.pc = IF 1 \in Attempts(rpc.max_retries) THEN "post" ELSE "done",
                          !.outcome = IF 1 \in Attempts(rpc.max_retries) THEN "none"
                                      ELSE "RuntimeError: retries"]
    /\ UNCHANGED <<mainvars, rt, run, rc>>

\* remote_policy_client.py 88-90 and 102-121: the POST succeeds, the loop is
\* left and the response is turned into the action
RpcPostOk(resp) ==
    /\ rpc.pc = "post"
    /\ rpc' = [rpc EXCEPT !.posts = @ + 1, !.succeeded = TRUE, !.pc = "done",
                          !.outcome = ResponseOutcome(resp)]
    /\ UNCHANGED <<mainvars, rt, run, rc>>

\* remote_policy_client.py 88-100: the POST raises requests.RequestException;
\* the delay is slept, also after the last attempt, and then the loop goes on
\* or ends in RuntimeError
RpcPostFail ==
    /\ rpc.pc = "post"
    /\ \E jitter \in Jitters(Wait(rpc.backoff_factor, rpc.attempt)) :
         LET delay == Wait(rpc.backoff_factor, rpc.attempt) + jitter
             more == (rpc.attempt + 1) \in Attempts(rpc.max_retries)
         IN rpc' = [rpc EXCEPT !.posts = @ + 1, !.delays = Append(@, delay),
                               !.attempt = IF more THEN @ + 1 ELSE @,
                               !.pc = IF more THEN "post" ELSE "done",
                               !.outcome = IF more THEN "none" ELSE "RuntimeError: retries"]
    /\ UNCHANGED <<mainvars, rt, run, rc>>

\* remote_policy_client.py 123-130: close()
RpcCloseUnguarded(c) ==
    [c EXCEPT !.session = "closed", !.closed = TRUE, !.sessionCloses = @ + 1]
RpcCloseOf(c) ==
    IF ~c.closed
    THEN [c EXCEPT !.session = "closed", !.closed = TRUE, !.sessionCloses = @ + 1]
    ELSE c

RpcLogged(c, by) ==
    [RpcCloseOf(c) EXCEPT !.closeLog =
        Append(@, [by |-> by, before |-> <<c.closed, c.session>>,
                   after |-> <<RpcCloseOf(c).closed, RpcCloseOf(c).session>>,
                   closedSession |-> RpcCloseOf(c).sessionCloses > c.sessionCloses])]

\* examples/run_so100_remote_client.py 113-114: close() called in the with block
RpcClose ==
    /\ rpc.pc \in {"idle", "done"}
    /\ rpc.scope = "with"
    /\ Len(rpc.closeLog) < MaxCloses
    /\ rpc' = RpcLogged(rpc, "close")
    /\ UNCHANGED <<mainvars, rt, run, rc>>

\* remote_policy_client.py 59-60: __exit__ on leaving the with block
RpcExit ==
    /\ rpc.pc \in {"idle", "done"}
    /\ rpc.scope = "with"
    /\ rpc' = [RpcLogged(rpc, "exit") EXCEPT !.scope = "left"]
    /\ UNCHANGED <<mainvars, rt, run, rc>>

\* ------------------------------------------------------- scripts/run.py
\* run.py 88 and main's arguments: the process as main finds it
RunNew(dry_run, ticks) ==
    [pc |-> "prepare", dry_run |-> dry_run, connected |-> FALSE, disconnects |-> 0,
     disconnectRaised |-> FALSE, handlers |-> FALSE, shutdown_requested |-> FALSE,
     remaining |-> ticks, steps |-> 0, stepsAfterRequest |-> 0, pending |-> "none",
     ret |-> -1]

\* run.py 383-407: the except clauses of main
ExitCode(exc) ==
    IF exc \in {"none", "KeyboardInterrupt"} THEN 0
    ELSE IF exc = "ValueError" THEN 1
    ELSE IF exc = "ConnectionError" THEN 2
    ELSE IF exc = "FileNotFoundError" THEN 3
    ELSE IF exc = "RuntimeError" THEN 4
    ELSE 5

\* run.py 194-205: the except clauses of setup_robot
SetupRaises(exc) ==
    IF exc \in {"ConnectionError", "KeyboardInterrupt"} THEN exc ELSE "RuntimeError"

RunReturn(r, exc) == [r EXCEPT !.pc = "returned", !.ret = ExitCode(exc)]

\* run.py 340-362: logging, validate_config, load_robot_config, load_policy
RunPrepare(exc) ==
    /\ run.pc = "prepare"
    /\ run' = IF exc = "none" THEN [run EXCEPT !.pc = "setup"] ELSE RunReturn(run, exc)
    /\ UNCHANGED <<mainvars, rt, rpc, rc>>

\* run.py 172-184: setup_robot up to robot.connect()
RunConnect(exc) ==
    /\ run.pc = "setup"
    /\ run.dry_run => exc = "none"
    /\ run' = IF run.dry_run THEN [run EXCEPT !.pc = "context"]
              ELSE IF exc = "none" THEN [run EXCEPT !.pc = "calibrate", !.connected = TRUE]
              ELSE RunReturn(run, SetupRaises(exc))
    /\ UNCHANGED <<mainvars, rt, rpc, rc>>

\* run.py 186-205: robot.calibrate() and the return of setup_robot
RunCalibrate(exc) ==
    /\ run.pc = "calibrate"
    /\ run' = IF exc = "none" THEN [run EXCEPT !.pc = "context"]
              ELSE RunReturn(run, SetupRaises(exc))
    /\ UNCHANGED <<mainvars, rt, rpc, rc>>

\* run.py 367-368 and 249-272: robot_context is entered and run_policy_control
\* installs signal_handler for SIGINT and SIGTERM (a dry run returns at once)
RunEnterControl ==
    /\ run.pc = "context"
    /\ run' = IF run.dry_run THEN [run EXCEPT !.pc = "exit"]
              ELSE [run EXCEPT !.pc = "loop", !.handlers = TRUE]
    /\ UNCHANGED <<mainvars, rt, rpc, rc>>

\* run.py 91-95: SIGINT or SIGTERM arrives while the control loop runs
signal_handler(r) == [r EXCEPT !.shutdown_requested = TRUE]
Signal ==
    /\ run.pc = "loop"
    /\ run.handlers
    /\ ~run.shutdown_requested
    /\ run' = signal_handler(run)
    /\ UNCHANGED <<mainvars, rt, rpc, rc>>

\* lerobot.common.robot_devices.control_utils.control_loop, called at run.py
\* 276-282 with robot, policy, control_time_s, fps and display_data: it steps
\* the robot until control_time_s has passed.  Whether it goes on is decided
\* by what it was given.
LoopGoesOn(r) == r.remaining > 0
ControlStep ==
    /\ run.pc = "loop"
    /\ LoopGoesOn(run)
    /\ run' = [run EXCEPT !.remaining = @ - 1, !.steps = @ + 1,
                          !.stepsAfterRequest = @ + (IF run.shutdown_requested THEN 1 ELSE 0)]
    /\ UNCHANGED <<mainvars, rt, rpc, rc>>

\* run.py 274-288: control_loop returns, or raises and run_policy_control
\* raises the exception again
ControlEnd(exc) ==
    /\ run.pc = "loop"
    /\ exc = "none" => ~LoopGoesOn(run)
    /\ run' = [run EXCEPT !.pc = "exit", !.pending = exc]
    /\ UNCHANGED <<mainvars, rt, rpc, rc>>

\* run.py 208-220 and 380-407: robot_context's finally disconnects a robot
\* that is there, swallowing what disconnect raises; then main returns
RunExitContext(raises) ==
    /\ run.pc = "exit"
    /\ run.dry_run => ~raises
    /\ run' = [RunReturn(run, run.pending) EXCEPT
                  !.disconnects = IF run.dry_run THEN @ ELSE @ + 1,
                  !.disconnectRaised = raises]
    /\ UNCHANGED <<mainvars, rt, rpc, rc>>

PrepareExceptions == {"none", "ValueError", "FileNotFoundError", "RuntimeError"}
RobotExceptions == {"none", "ConnectionError", "Exception", "KeyboardInterrupt"}
LoopExceptions == {"none", "RuntimeError", "Exception"}

\* ------------------------------------------- scripts/remote_client.py
\* remote_client.py 27-46: the process as main finds it
RcNew ==
    [pc |-> "setup", clientBuilt |-> FALSE, clientCloses |-> 0, robotConnected |-> FALSE,
     robotDisconnects |-> 0, iterations |-> 0, fallbacks |-> 0, pending |-> "none"]

RcRaise(r, exc) == [r EXCEPT !.pc = "ended", !.pending = exc]

\* remote_client.py 46-70: arguments, robot and policy configuration
RcSetup(exc) ==
    /\ rc.pc = "setup"
    /\ rc' = IF exc = "none" THEN [rc EXCEPT !.pc = "construct"] ELSE RcRaise(rc, exc)
    /\ UNCHANGED <<mainvars, rt, rpc, run>>

\* remote_client.py 71: RemoteInferenceClient(remote_config)
RcConstruct(exc) ==
    /\ rc.pc = "construct"
    /\ rc' = IF exc = "none" THEN [rc EXCEPT !.pc = "connect", !.clientBuilt = TRUE]
             ELSE RcRaise(rc, exc)
    /\ UNCHANGED <<mainvars, rt, rpc, run>>

\* remote_client.py 74: robot.connect(), before the try statement
RcConnect(exc) ==
    /\ rc.pc = "connect"
    /\ rc' = IF exc = "none" THEN [rc EXCEPT !.pc = "loop", !.robotConnected = TRUE]
             ELSE RcRaise(rc, exc)
    /\ UNCHANGED <<mainvars, rt, rpc, run>>

\* remote_client.py 79-88: one pass of the loop; client(obs) returns the
\* server's action or the fallback and does not raise
RcLoopStep(fallback) ==
    /\ rc.pc = "loop"
    /\ rc.iterations < MaxTicks
    /\ rc' = [rc EXCEPT !.iterations = @ + 1,
                        !.fallbacks = @ + (IF fallback THEN 1 ELSE 0)]
    /\ UNCHANGED <<mainvars, rt, rpc, run>>

\* remote_client.py 77-91: the loop is left by KeyboardInterrupt, which is
\* caught, or by an exception of the robot, which stays pending
RcLoopExit(exc) ==
    /\ rc.pc = "loop"
    /\ exc # "none"
    /\ rc' = [rc EXCEPT !.pc = "close",
                        !.pending = IF exc = "KeyboardInterrupt" THEN "none" ELSE exc]
    /\ UNCHANGED <<mainvars, rt, rpc, run>>

\* remote_client.py 92: client.close() in the finally block.  After a pass
\* that ended in the fallback a request may still be undelivered, and then
\* context.term() does not return.
RcFinallyClose(returns) ==
    /\ rc.pc = "close"
    /\ ~returns => rc.fallbacks > 0
    /\ rc' = [rc EXCEPT !.pc = IF returns THEN "disconnect" ELSE "blocked",
                        !.clientCloses = @ + 1]
    /\ UNCHANGED <<mainvars, rt, rpc, run>>

\* remote_client.py 93-94: robot.disconnect() in the finally block, then the
\* pending exception leaves main
RcFinallyDisconnect(exc) ==
    /\ rc.pc = "disconnect"
    /\ rc' = [rc EXCEPT !.pc = "ended", !.robotDisconnects = @ + 1,
                        !.pending = IF exc = "none" THEN @ ELSE exc]
    /\ UNCHANGED <<mainvars, rt, rpc, run>>

SetupExceptions == {"none", "Exception"}
ConstructExceptions == {"none", "ZMQError"}

\* ------------------------------------------------------- client lifecycle
\* client.py 26-31: zmq.Context(), context.socket(zmq.REQ), socket.connect().
\* fault names the call that the transport fails in, if any; nothing in
\* __init__ catches, so the zmq.ZMQError goes to the caller. connect() only
\* records the endpoint: whether a peer listens there plays no part.
ClientInitEager(fault, peerUp) ==
    IF fault = "none" /\ peerUp
    THEN [context |-> "open", socket |-> "open", exc |-> None]
    ELSE [context |-> "open", socket |-> "open", exc |-> "ZMQError"]
ClientInit(fault, peerUp) ==
    IF fault = "context" THEN [context |-> "none", socket |-> "none", exc |-> "ZMQError"]
    ELSE IF fault = "socket" THEN [context |-> "open", socket |-> "none", exc |-> "ZMQError"]
    ELSE IF fault = "connect" THEN [context |-> "open", socket |-> "open", exc |-> "ZMQError"]
    ELSE [context |-> "open", socket |-> "open", exc |-> None]

InitFaults == {"none", "context", "socket", "connect"}

\* a peer is bound to the endpoint
PeerUp == spc \notin {"bind", "raised"} /\ serverSock = "open"

ClientConstruct(fault) ==
    /\ ~built.done
    /\ LET r == ClientInit(fault, PeerUp) IN
       /\ context' = r.context
       /\ socket' = r.socket
       /\ built' = [done |-> TRUE, fault |-> fault, exc |-> r.exc, peerUp |-> PeerUp]
    /\ UNCHANGED <<aux, closes, config, cvars, c2s, narrived, s2c, svars, nforeign, nfaults>>

\* client.py 74: self.socket.close(); closing a closed socket does nothing
socket_close_strict(sock) ==
    IF sock = "closed" THEN [state |-> sock, exc |-> "ZMQError"]
    ELSE [state |-> "closed", exc |-> None]
socket_close(sock) == [state |-> "closed", exc |-> None]
\* client.py 75: self.context.term(); terminating a terminated context does nothing
context_term(ctx) == [state |-> "terminated", exc |-> None]

\* term() waits for the requests the closed socket still holds for a peer that
\* has never been there to take them (the socket's linger period is unlimited)
TermBlocks == spc = "bind" /\ \E i \in 1..Len(c2s) : c2s[i][1] = "client"

\* client.py 72-74: close() is entered between two calls and closes the socket
ClientClose ==
    /\ cpc \in {"idle", "done"}
    /\ built.done /\ built.exc = None
    /\ Len(closes) < MaxCloses
    /\ LET r == socket_close(socket) IN
       /\ closes' = Append(closes, [before |-> <<socket, context>>,
                                    after |-> <<r.state, context>>,
                                    exc |-> r.exc, returned |-> r.exc # None])
       /\ socket' = r.state
       /\ cpc' = IF r.exc # None THEN "idle" ELSE "term"
    /\ UNCHANGED <<aux, context, built, config, attempt, obs_serializable, reqState, result,
                   raised, call, ncalls, c2s, narrived, s2c, svars, nforeign, nfaults>>

\* client.py 75: close() terminates the context and returns
ClientTerm ==
    /\ cpc = "term"
    /\ ~TermBlocks
    /\ LET r == context_term(context) IN
       /\ context' = r.state
       /\ closes' = [closes EXCEPT ![Len(closes)] =
                        [@ EXCEPT !.after = <<socket, r.state>>, !.exc = r.exc,
                                  !.returned = TRUE]]
    /\ cpc' = "idle"
    /\ UNCHANGED <<aux, socket, built, config, attempt, obs_serializable, reqState, result, raised,
                   call, ncalls, c2s, narrived, s2c, svars, nforeign, nfaults>>

\* client.py 49, 63-65: send_json on a closed socket raises zmq.ZMQError
ClientSendClosed ==
    /\ cpc = "send"
    /\ socket = "closed"
    /\ AfterException("ZMQError", [call EXCEPT !.fault = TRUE])
    /\ UNCHANGED <<aux, lvars, config, obs_serializable, reqState, ncalls, c2s, narrived, s2c,
                   svars, nforeign, nfaults>>

\* ------------------------------------------------------------------ server
\* tests/test_remote_inference.py 20-29: EchoPolicy.select_action, the policy
\* the tests serve: torch.arange(length of observation.state); a batch with no
\* observation.state has state None and len(None) raises TypeError.
IndexSeq(n) == [i \in 1..n |-> i - 1]
select_action(batch) ==
    IF \E p \in batch : p[1] = "observation.state"
    THEN [exc |-> "none",
          action |-> IndexSeq(Len((CHOOSE p \in batch : p[1] = "observation.state")[2]))]
    ELSE [exc |-> "TypeError", action |-> <<>>]

\* lerobot.common.utils.control_utils.predict_action with the observation
\* preprocessing: the agent_pos channel is the policy's observation.state,
\* other channels keep their names; the policy is invoked once.
predict_action(obs_np, task) ==
    select_action({ <<IF p[1] = "agent_pos" THEN "observation.state" ELSE p[1], p[2]>>
                    : p \in obs_np })

\* server.py 56-70: decode the request and run the policy
Process(doc) ==
    IF doc.json # "object" THEN [exc |-> "AttributeError", action |-> <<>>]
    ELSE predict_action(doc.obs, doc.task)

\* server.py 73-83: the replies start() sends for a processed request, given
\* whether the send of the success reply (s1) and of the error reply (s2)
\* go through.  A failing success send is an exception of the try block and
\* is answered by the error handler like any other.
RepliesSentBoth(p, s1, s2) ==
    IF p.exc = "none"
    THEN (IF s1 THEN <<SuccessDoc(p.action)>> ELSE <<>>)
         \o (IF s2 THEN <<ErrorDoc("late")>> ELSE <<>>)
    ELSE IF s2 THEN <<ErrorDoc(p.exc)>> ELSE <<>>
RepliesSentSwallow(p, s1, s2) ==
    IF p.exc = "none"
    THEN IF s1 THEN <<SuccessDoc(p.action)>>
         ELSE IF s2 THEN <<ErrorDoc("ZMQError")>> ELSE <<>>
    ELSE IF p.exc = "AttributeError" THEN <<>>
    ELSE IF s2 THEN <<ErrorDoc(p.exc)>> ELSE <<>>
RepliesSent(p, s1, s2) ==
    IF p.exc = "none"
    THEN IF s1 THEN <<SuccessDoc(p.action)>>
         ELSE IF s2 THEN <<ErrorDoc("ZMQError")>> ELSE <<>>
    ELSE IF s2 THEN <<ErrorDoc(p.exc)>> ELSE <<>>

\* how many of the send_json calls made for a processed request failed
SendsFailed(p, s1, s2) ==
    IF p.exc = "none"
    THEN IF s1 THEN 0 ELSE IF s2 THEN 1 ELSE 2
    ELSE IF s2 THEN 0 ELSE 1

\* server.py 44: bind; a failure raises out of start() before the try block
ServerBind ==
    /\ spc = "bind"
    /\ \/ /\ spc' = "recv"
          /\ UNCHANGED stopCause
       \/ /\ spc' = "raised"
          /\ stopCause' = "bind"
    /\ UNCHANGED <<aux, lvars, config, cvars, c2s, narrived, s2c, repState, observation, served, policy,
                   serverSock, nforeign, nfaults>>

\* server.py 49-54 and 87-89: which exceptions of recv_json end the loop
\* quietly (break, then finally) and which leave start() through finally
RecvHandler(exc) == IF exc = "ZMQError" THEN "break" ELSE "propagate"

AfterRecvException(exc) ==
    LET h == RecvHandler(exc) IN
    /\ spc' = IF h = "break" THEN "returned" ELSE IF h = "propagate" THEN "raised" ELSE "recv"
    /\ stopCause' = IF h = "continue" THEN stopCause
                    ELSE IF exc = "ZMQError" THEN "recv_error" ELSE "decode_error"
    /\ serverSock' = IF h = "continue" THEN serverSock ELSE "closed"

\* server.py 51: the REP socket hands over the requests in the order in which
\* they arrived
TakeNewest(q) == [msg |-> q[Len(q)], rest |-> SubSeq(q, 1, Len(q) - 1)]
TakeRequest(q) == [msg |-> Head(q), rest |-> Tail(q)]

\* server.py 56-70: what serving a request does to self.policy: predict_action
\* invokes it once when the request decoded to a mapping; it is never reset
\* and never replaced
PolicyAfterResetOnError(pol, doc) ==
    IF doc.json # "object" THEN [pol EXCEPT !.resets = @ + 1, !.calls = 0]
    ELSE [pol EXCEPT !.calls = @ + 1]
PolicyAfterRetryOnError(pol, doc) ==
    IF doc.json # "object" THEN pol
    ELSE [pol EXCEPT !.calls = @ + (IF Process(doc).exc = "none" THEN 1 ELSE 2)]
PolicyAfter(pol, doc) ==
    IF doc.json # "object" THEN pol ELSE [pol EXCEPT !.calls = @ + 1]

\* server.py 51: recv_json takes the next request; a REP socket hands it over
\* only when the previous request was answered
ServerRecv ==
    /\ spc = "recv"
    /\ repState = "recv"
    /\ c2s # <<>>
    /\ c2s' = TakeRequest(c2s).rest
    /\ repState' = "send"
    /\ IF TakeRequest(c2s).msg[2].json = "invalid"
       THEN /\ AfterRecvException("ValueError")
            /\ UNCHANGED observation
       ELSE /\ observation' = TakeRequest(c2s).msg
            /\ spc' = "handle"
            /\ UNCHANGED <<stopCause, serverSock>>
    /\ UNCHANGED <<aux, lvars, config, cvars, narrived, s2c, served, policy, nforeign, nfaults>>

\* server.py 51-54: recv_json on a REP socket that still owes a reply (EFSM)
ServerRecvRefused ==
    /\ spc = "recv"
    /\ repState = "send"
    /\ AfterRecvException("ZMQError")
    /\ UNCHANGED <<aux, lvars, config, cvars, c2s, narrived, s2c, repState, observation, served, policy,
                   nforeign, nfaults>>

\* server.py 51-54: a channel-level receive failure
ServerRecvFault ==
    /\ spc = "recv"
    /\ repState = "recv"
    /\ nfaults < MaxFaults
    /\ nfaults' = nfaults + 1
    /\ AfterRecvException("ZMQError")
    /\ UNCHANGED <<aux, lvars, config, cvars, c2s, narrived, s2c, repState, observation, served, policy,
                   nforeign>>

\* server.py 56-83: process the request and reply
ServerHandle ==
    /\ spc = "handle"
    /\ \E s1, s2 \in BOOLEAN :
         LET doc == observation[2]
             p == Process(doc)
             replies == RepliesSent(p, s1, s2)
             failed == SendsFailed(p, s1, s2)
         IN /\ (p.exc # "none") => s1
            /\ (p.exc = "none" /\ s1) => s2
            /\ nfaults + failed <= MaxFaults
            /\ nfaults' = nfaults + failed
            /\ served' = Append(served,
                                [sender |-> observation[1], doc |-> doc, seq |-> observation[3],
                                 exc |-> p.exc, action |-> p.action, replies |-> replies,
                                 failed |-> failed])
            /\ policy' = PolicyAfter(policy, doc)
            /\ repState' = IF replies # <<>> THEN "recv" ELSE "send"
            /\ s2c' = IF observation[1] = "client"
                       THEN s2c \o [i \in 1..Len(replies) |-> <<replies[i], observation[3]>>]
                       ELSE s2c
    /\ spc' = "recv"
    /\ UNCHANGED <<aux, lvars, config, cvars, c2s, narrived, observation, stopCause, serverSock, nforeign>>

\* server.py 85-89: KeyboardInterrupt inside the try block
ServerInterrupt ==
    /\ spc \in {"recv", "handle"}
    /\ spc' = "returned"
    /\ stopCause' = "interrupt"
    /\ serverSock' = "closed"
    /\ UNCHANGED <<aux, lvars, config, cvars, c2s, narrived, s2c, repState, observation, served, policy,
                   nforeign, nfaults>>

\* ------------------------------------------------------------- environment
\* another peer connected to the server's endpoint sends a document
ForeignDocs ==
    { ReqArray, ReqInvalid, ReqDoc({ <<"agent_pos", <<5>>>> }, None, None) }
ForeignSend(doc) ==
    /\ nforeign < MaxForeign
    /\ nforeign' = nforeign + 1
    /\ narrived' = narrived + 1
    /\ c2s' = Append(c2s, <<"peer", doc, narrived + 1>>)
    /\ UNCHANGED <<aux, lvars, config, cvars, s2c, svars, nfaults>>

\* the endpoint is held by something that is not this server, which answers
\* the client's request with a document no conforming server sends
AlienAnswer(doc) ==
    /\ spc \in {"bind", "raised", "returned"}
    /\ c2s # <<>>
    /\ Head(c2s)[1] = "client"
    /\ c2s' = Tail(c2s)
    /\ s2c' = Append(s2c, <<doc, Head(c2s)[3]>>)
    /\ UNCHANGED <<aux, lvars, config, cvars, narrived, svars, nforeign, nfaults>>

\* ------------------------------------------------------------------ claims
CallReturned == cpc = "done" /\ ~raised
\* the call met a server that never replies: it started on a usable socket,
\* every receive it made timed out and the channel reported no other error
ServerSilent ==
    /\ call.freshStart
    /\ call.timeouts >= 1
    /\ call.reply = None
    /\ ~call.fault

\* C1: no exception escapes __call__; a call that has ended, whatever the
\* server and the channel did, has returned an Action (an array or a mapping).
C1_InferNeverRaises ==
    /\ ~raised
    /\ cpc = "done" => result.kind \in {"array", "map"}
\* a call that received an undecodable or malformed reply and returned
C1_Witness ==
    /\ CallReturned
    /\ call.exit \in {"ValueError", "AttributeError", "KeyError", "IndexError"}
    /\ result = Fallback(config.robot)

\* C2: a call that meets a silent server ends after exactly MaxRetries
\* transmitted requests and returns the fallback.
C2_ExactlyMaxRetriesSends ==
    (CallReturned /\ ServerSilent) =>
        (call.sent = MaxRetries /\ result = Fallback(config.robot))

\* C3: after a receive timed out, the retry finds the socket in the state in
\* which a send is valid.
C3_SendValidAfterTimeout ==
    (cpc = "send" /\ attempt > 0) => reqState = "ready"

\* C4: the client never attempts a send on its socket while the reply to an
\* earlier request is outstanding, within a call or across calls.
C4_NoSendWhileOutstanding ==
    ~call.badSend

\* C5 (as claimed): an error reply to attempt k < MaxRetries is followed by
\* a further request in the same call.
C5_ErrorReplyRetried ==
    (CallReturned /\ call.reply = "error" /\ call.replyAt < MaxRetries) =>
        call.sent > call.sentAtReply
\* C5 (amended): an error reply ends the call at once: no backoff, no further
\* request, and the fallback is returned, whatever the attempt number.
C5_ErrorReplyEndsCall ==
    call.reply = "error" =>
        /\ CallReturned
        /\ call.exit = "RuntimeError"
        /\ call.sent = call.sentAtReply
        /\ call.waits = <<>>
        /\ result = Fallback(config.robot)
C5_Witness ==
    /\ call.reply = "error"
    /\ call.replyAt = 1
    /\ cpc = "done"

\* the fallback the specification declares: zeros over the command channels,
\* or a zero-length action when the channels are unknown
DeclaredFallback(stub) ==
    IF stub THEN Mapping(feature_names, [i \in 1..Len(feature_names) |-> 0])
    ELSE NdArray(<<0>>, <<>>)

\* C6: a call that returns the fallback returns the all-zero mapping over the
\* command channels with a robot config, and an empty action without one.
C6_FallbackIsDeclaredShape ==
    (CallReturned /\ call.exit # "success") => result = DeclaredFallback(config.robot)

\* C7: without a robot config, the fallback after timeouts is an array of the
\* action feature's shape.
C7_TimeoutFallbackHasFeatureShape ==
    (CallReturned /\ ServerSilent /\ ~config.robot) =>
        (result.kind = "array" /\ result.shape = <<ActionFeatureDim>>)

\* a request the policy can answer: a mapping with the agent_pos channel
WellFormed(doc) ==
    doc.json = "object" /\ \E p \in doc.obs : p[1] = "agent_pos"
LegalReply(r) ==
    /\ r.json = "object"
    /\ \/ r.status = "success" /\ r.keys = {"status", "action"}
       \/ r.status = "error" /\ r.keys = {"status", "error"} /\ r.error # None

\* C8: a request whose processing failed is answered with an error reply, and
\* a well-formed request served right after it is answered with success and
\* the action the policy computed (each whenever the reply's send went through).
C8_ServerIsolation ==
    \A i \in 1..Len(served) :
        served[i].exc # "none" =>
            /\ served[i].failed = 0 =>
                   /\ Len(served[i].replies) = 1
                   /\ served[i].replies[1].status = "error"
            /\ (i < Len(served) /\ WellFormed(served[i + 1].doc)
                  /\ served[i + 1].failed = 0) =>
                   /\ served[i + 1].exc = "none"
                   /\ served[i + 1].replies = <<SuccessDoc(served[i + 1].action)>>
C8_Witness ==
    \E i \in 1..Len(served) :
        /\ i < Len(served)
        /\ ~WellFormed(served[i].doc)
        /\ served[i].replies # <<>>
        /\ served[i].replies[1].status = "error"
        /\ WellFormed(served[i + 1].doc)
        /\ served[i + 1].replies # <<>>
        /\ served[i + 1].replies[1].status = "success"
        /\ served[i + 1].replies[1].action = <<0, 1, 2>>

\* C9: start() ends only on a bind failure or an interrupt.
C9_LoopEndsOnlyOnBindOrInterrupt ==
    spc \in {"returned", "raised"} => stopCause \in {"bind", "interrupt"}

\* C10: every request recv_json returned got at most one reply, exactly one
\* when none of its sends failed, and each reply has a legal shape.
C10_OneLegalReplyPerRequest ==
    \A i \in 1..Len(served) :
        /\ Len(served[i].replies) <= 1
        /\ served[i].failed = 0 => Len(served[i].replies) = 1
        /\ \A k \in 1..Len(served[i].replies) : LegalReply(served[i].replies[k])
\* a request whose success reply could not be sent and got the error reply
C10_Witness ==
    \E i \in 1..Len(served) :
        /\ served[i].exc = "none"
        /\ served[i].failed = 1
        /\ Len(served[i].replies) = 1
        /\ served[i].replies[1].status = "error"

\* C11: requests are served one at a time in the order in which they arrived:
\* the policy invocations recorded in served follow the arrival numbers, a
\* request being processed arrived after every request already served, the
\* socket owes exactly its reply while it is processed, and every request but
\* the last served got its reply before the next one was received.
C11_SequentialInOrder ==
    /\ \A i \in 1..Len(served) :
           /\ i < Len(served) =>
                  /\ served[i].seq < served[i + 1].seq
                  /\ Len(served[i].replies) = 1
           /\ spc = "handle" =>
                  /\ served[i].seq < observation[3]
                  /\ Len(served[i].replies) = 1
    /\ spc = "handle" => repState = "send"
\* two requests of different senders were both served and answered
C11_Witness ==
    /\ Len(served) >= 2
    /\ served[1].sender # served[2].sender
    /\ served[1].replies # <<>>
    /\ served[2].replies # <<>>

\* C12: the policy instance is the one built at construction, reset() was
\* called on it at most once (there), and its invocation count only grows: it
\* is one per request that decoded to a mapping, also after error replies.
C12_PolicyNeverResetAfterConstruction ==
    /\ policy.instance = 1
    /\ policy.resets <= 1
    /\ policy.calls = Cardinality({i \in 1..Len(served) : served[i].doc.json = "object"})
\* a request answered with success after one answered with an error
C12_Witness ==
    \E i \in 1..Len(served) :
        /\ i < Len(served)
        /\ served[i].exc # "none"
        /\ served[i + 1].exc = "none"
        /\ policy.calls >= 1

\* C15: without a robot config, a call answered by the server returns the
\* array of exactly the action the policy computed for the request this call
\* sent; for {agent_pos: [1, 2, 3]} that is [0, 1, 2].
C15_ReturnsPolicyAction ==
    \A i \in 1..Len(served) :
        (CallReturned /\ call.exit = "success" /\ ~config.robot
           /\ served[i].seq = call.reqSeq) =>
            /\ served[i].doc = obs_serializable
            /\ served[i].exc = "none"
            /\ result = NpArray(served[i].action)
            /\ obs_serializable.obs = { <<"agent_pos", <<1, 2, 3>>>> } =>
                   result = NdArray(<<3>>, <<0, 1, 2>>)
C15_Witness ==
    /\ CallReturned
    /\ call.exit = "success"
    /\ ~config.robot
    /\ obs_serializable.obs = { <<"agent_pos", <<1, 2, 3>>>> }
    /\ result = NdArray(<<3>>, <<0, 1, 2>>)
    /\ \E i \in 1..Len(served) : served[i].seq = call.reqSeq

\* C16: a mapping returned by __call__ has exactly the command channels as
\* keys, and on success the i-th channel carries the i-th element of the
\* action of the reply.
C16_MappingMatchesChannels ==
    (CallReturned /\ result.kind = "map") =>
        /\ result.names = feature_names
        /\ Len(result.data) = Len(feature_names)
        /\ call.exit = "success" =>
               \A i \in 1..Len(feature_names) : result.data[i] = call.action[i]
C16_Witness ==
    /\ CallReturned
    /\ result.kind = "map"
    /\ call.exit = "success"
    /\ call.action = <<0, 1, 2>>
    /\ result.data = <<0, 1>>

\* C18: whenever start() has stopped, by whatever path, the reply socket is
\* closed and its context terminated.
C18_SocketReleasedOnEveryExit ==
    spc \in {"returned", "raised"} => serverSock = "closed"

\* C20 (as claimed): the k-th wait of a call is base * 2^(k-1) plus a jitter
\* in [0, base * 2^(k-1)), with the default base of 0.5 s.
C20_BackoffWithJitter ==
    \A k \in 1..Len(call.waits) :
        /\ call.waits[k] >= DefaultBackoffTenths * Pow2(k - 1)
        /\ call.waits[k] < 2 * DefaultBackoffTenths * Pow2(k - 1)
\* C20 (amended): every timed-out attempt is followed by a wait, the k-th wait
\* is exactly 0.1 s * 2^(k-1) with no jitter, and a call makes at most the
\* fixed three attempts.
C20_BackoffFixedExponential ==
    /\ Len(call.waits) = call.timeouts
    /\ call.timeouts <= MaxRetries
    /\ \A k \in 1..Len(call.waits) : call.waits[k] = BackoffBaseTenths * Pow2(k - 1)
C20_Witness ==
    /\ call.timeouts = 1
    /\ call.waits = <<1>>
    /\ CallReturned

\* C19: with a positive timeout_ms every call that has started eventually
\* returns a value, whatever the server does, including never replying.
C19_CallEventuallyReturns ==
    (timeout_ms > 0 /\ cpc \in {"send", "recv"}) ~> CallReturned
C19_Witness ==
    /\ CallReturned
    /\ call.sent = 1
    /\ call.timeouts = 1
    /\ served = <<>>
    /\ spc = "bind"

\* C13: close() does not throw and is idempotent: the first call leaves the
\* socket closed and the context terminated, a second call raises nothing and
\* leaves the client as it found it.
C13_CloseIdempotent ==
    \A i \in 1..Len(closes) :
        closes[i].returned =>
            /\ closes[i].exc = None
            /\ closes[i].after = <<"closed", "terminated">>
            /\ (i > 1 => closes[i].after = closes[i].before)
C13_Witness ==
    /\ Len(closes) = 2
    /\ closes[2].returned
    /\ closes[1].before = <<"open", "open">>

\* C17 (as claimed): construction succeeds when the peer is unreachable, and
\* a transport that cannot be created raises ConnectionError to the caller.
C17_TransportFailureIsConnectionError ==
    built.done =>
        /\ (built.fault = "none" => built.exc = None)
        /\ (built.fault # "none" => built.exc = "ConnectionError")
\* C17 (amended): construction succeeds whether or not a peer is reachable,
\* and a transport that cannot be created raises zmq.ZMQError to the caller.
C17_TransportFailureIsZMQError ==
    built.done =>
        /\ (built.fault = "none" => built.exc = None)
        /\ (built.fault # "none" => built.exc = "ZMQError")
C17_Witness ==
    /\ built.done
    /\ ~built.peerUp
    /\ built.fault = "none"
    /\ built.exc = None
    /\ socket = "open"

\* two values are numerically equal: same shape, same numbers
NumEqual(a, b) == a.kind # "str" /\ b.kind # "str" /\ a.shape = b.shape /\ a.data = b.data

\* C14: the channel map the server decodes from the client's wire request has
\* the channel names of the original observation and, channel for channel,
\* equal arrays.
C14_RoundTrip ==
    rt.pc = "decoded" =>
        /\ DOMAIN rt.decoded = DOMAIN rt.obs
        /\ \A k \in DOMAIN rt.obs : NumEqual(rt.decoded[k], rt.obs[k])

\* C21: a reply send that fails does not stop the service: when the server is
\* back at its receive after a request whose reply send failed, the reply
\* socket is ready to receive.
C21_ServingAfterFailedReplySend ==
    (spc = "recv" /\ served # <<>> /\ served[Len(served)].failed > 0) => repState = "recv"

\* the requests served so far that decoded to a mapping
DecodedRequests == { i \in 1..Len(served) : served[i].doc.json = "object" }
\* C22: the policy is invoked once for each request that decodes to a channel
\* map and not at all for one that does not, whatever reply follows.
C22_OneInvocationPerRequest ==
    policy.calls = Cardinality(DecodedRequests)
C22_Witness ==
    /\ Len(served) = 2
    /\ served[1].doc.json # "object"
    /\ served[2].exc = "TypeError"
    /\ served[2].replies = <<ErrorDoc("TypeError")>>

\* C23: the task handed to the policy invocation is the client's text_prompt,
\* and None exactly when the client has none; no observation channel is taken
\* for it.
C23_TaskIsTextPrompt ==
    rt.pc = "decoded" =>
        rt.task = IF config.text_prompt = None THEN JNone ELSE JStr(config.text_prompt)

\* C24: the observation handed to the policy holds numeric channels only;
\* neither task nor robot_type is in it.
C24_OnlyNumericChannels ==
    rt.pc = "decoded" =>
        /\ "task" \notin DOMAIN rt.decoded
        /\ \A k \in DOMAIN rt.decoded : rt.decoded[k].kind # "str"

\* C25: select_action makes its POST attempts one after another, none after
\* the first that succeeds and never more than max_retries; when all fail it
\* has made exactly max_retries and raises RuntimeError.
C25_AtMostMaxRetriesPosts ==
    /\ rpc.posts <= rpc.max_retries
    /\ rpc.posts = Len(rpc.delays) + (IF rpc.succeeded THEN 1 ELSE 0)
    /\ (rpc.pc = "done" /\ ~rpc.succeeded) =>
           (rpc.posts = rpc.max_retries /\ rpc.outcome = "RuntimeError: retries")
    /\ rpc.outcome = "RuntimeError: retries" => ~rpc.succeeded
C25_Witness ==
    /\ rpc.pc = "done"
    /\ rpc.max_retries = 3
    /\ rpc.posts = 3
    /\ rpc.outcome = "RuntimeError: retries"

\* C26: the delay slept after the k-th failed attempt lies between wait and
\* 2 * wait, with wait = backoff_factor * 2^(k-1).
C26_DelayBetweenWaitAndTwice ==
    \A k \in 1..Len(rpc.delays) :
        /\ rpc.delays[k] >= rpc.backoff_factor * Pow2(k - 1)
        /\ rpc.delays[k] <= 2 * rpc.backoff_factor * Pow2(k - 1)
C26_Witness ==
    /\ Len(rpc.delays) = 3
    /\ rpc.backoff_factor = DefaultBackoffTenths
    /\ rpc.delays[3] > 4 * DefaultBackoffTenths
    /\ rpc.delays[3] < 8 * DefaultBackoffTenths

\* C27: the HTTP session is closed at most once: the first close() closes it
\* and sets closed, every later one, the one made by __exit__ included, leaves
\* the client as it was.
C27_SessionClosedAtMostOnce ==
    /\ rpc.sessionCloses <= 1
    /\ \A i \in 1..Len(rpc.closeLog) :
          /\ rpc.closeLog[i].after = <<TRUE, "closed">>
          /\ rpc.closeLog[i].closedSession = (i = 1)
          /\ (i > 1 => rpc.closeLog[i].after = rpc.closeLog[i].before)
C27_Witness ==
    /\ Len(rpc.closeLog) = 2
    /\ rpc.closeLog[1].by = "close"
    /\ rpc.closeLog[2].by = "exit"
    /\ rpc.scope = "left"

\* C28: a shutdown request recorded by signal_handler is acted upon: once it
\* is recorded the control loop takes no further step.
C28_ShutdownRequestStopsLoop ==
    run.stepsAfterRequest = 0

\* C29: when robot.connect() has succeeded, robot.disconnect() has been called
\* by the time main returns, and what disconnect raises does not reach main.
C29_DisconnectedOnEveryPath ==
    (run.pc = "returned" /\ run.connected) => run.disconnects >= 1

\* C30: whenever main ends after the RemoteInferenceClient was constructed,
\* client.close() and robot.disconnect() have both been called.
C30_ClosedAndDisconnectedOnExit ==
    (rc.pc = "ended" /\ rc.clientBuilt) =>
        (rc.clientCloses >= 1 /\ rc.robotDisconnects >= 1)

\* C31: an action returned on the success path was decoded from the reply to
\* the request sent in that same attempt; the reply to an earlier request is
\* never taken for the reply to a later one.
C31_ReplyAnswersOwnRequest ==
    (CallReturned /\ call.exit = "success") =>
        /\ call.sentAtReply = call.sent
        /\ call.replyTo = call.reqSeq
\* the second call on a client succeeds on the reply to its own request
C31_Witness ==
    /\ CallReturned
    /\ call.exit = "success"
    /\ ncalls = 2
    /\ call.reqSeq = 2
    /\ call.replyTo = 2

\* the server is bound, has itself taken and answered every request put on the
\* wire and waits for the next one; nothing on the channel has failed and no
\* other peer exists
ServerResponsive ==
    /\ spc = "recv"
    /\ repState = "recv"
    /\ c2s = <<>>
    /\ Len(served) = narrived
    /\ nfaults = 0
    /\ nforeign = 0

\* C32: the client recovers after a timeout: a later call, made after a call
\* that timed out and returned the fallback, and served by a responsive
\* server, transmits a request and returns the server's action.
C32_RecoversAfterTimeout ==
    /\ (cpc = "send" /\ attempt = 0 /\ ~call.freshStart /\ ServerResponsive) =>
           ReqMaySend(reqState)
    /\ (CallReturned /\ ~call.freshStart /\ call.sent >= 1 /\ ServerResponsive) =>
           call.exit = "success"

\* C34: with a robot config, a success reply whose action is shorter or longer
\* than the list of command channels gives the all-zero fallback mapping.
C34_WrongLengthGivesFallback ==
    (CallReturned /\ config.robot /\ call.reply = "success"
       /\ Len(call.action) # Len(feature_names)) =>
        result = Fallback(TRUE)

\* C35: no policy invocation is wasted: once the call that sent a request has
\* returned, an action the policy computed for that request is the one the
\* call returned.
C35_NoWastedInvocation ==
    \A i \in 1..Len(served) :
        (CallReturned /\ served[i].seq = call.reqSeq /\ served[i].exc = "none") =>
            /\ call.exit = "success"
            /\ call.replyTo = served[i].seq
            /\ call.action = served[i].action

\* C33: close() terminates in every state of the client, the one with a
\* request sent and neither delivered nor answered included: once close() has
\* closed the socket, terminating the context returns.
C33_CloseTerminates == (cpc = "term") ~> (cpc = "idle")

\* C36: _process_observation returns the request's agent_pos as the tensor
\* observation.state, holding the numbers of the request's list in its
\* nesting, returns tensors for everything but the task, and carries the task
\* over unchanged: the result's task is the request's task when the request
\* has one, and the result has no task key when the request has none.
C36_ProcessObservationKeepsTask ==
    (rt.pc = "processed" /\ rt.processed.exc = None) =>
        LET processed == rt.processed.value IN
        /\ "observation.state" \in DOMAIN processed
        /\ "agent_pos" \notin DOMAIN processed
        /\ \A k \in DOMAIN processed \ {"task"} : processed[k].kind = "tensor"
        /\ ToList(processed["observation.state"].shape, processed["observation.state"].data)
               = rt.wire["agent_pos"]
        /\ "task" \in DOMAIN rt.wire =>
               ("task" \in DOMAIN processed /\ processed["task"] = rt.wire["task"])
        /\ "task" \notin DOMAIN rt.wire => "task" \notin DOMAIN processed
\* a request with a two-element agent_pos and the prompt "pick" was processed
C36_Witness ==
    /\ rt.pc = "processed"
    /\ rt.processed.exc = None
    /\ rt.wire["agent_pos"] = JList(<<JNum(1), JNum(2)>>)
    /\ "task" \in DOMAIN rt.wire
    /\ rt.processed.value["task"] = JStr("pick")
    /\ rt.processed.value["observation.state"].shape = <<2>>

InitChannel ==
    /\ config \in [robot : BOOLEAN, text_prompt : {None, "pick"}]
    /\ cpc = "idle"
    /\ attempt = 0
    /\ obs_serializable = ReqDoc({}, None, None)
    /\ reqState = "ready"
    /\ result = NoAction
    /\ raised = FALSE
    /\ call = NewCall
    /\ ncalls = 0
    /\ c2s = <<>>
    /\ s2c = <<>>
    /\ spc = "bind"
    /\ repState = "recv"
    /\ observation = <<"none", ReqArray, 0>>
    /\ policy = [instance |-> 1, resets |-> 1, calls |-> 0]
    /\ serverSock = "open"
    /\ narrived = 0
    /\ served = <<>>
    /\ stopCause = "running"
    /\ nforeign = 0
    /\ nfaults = 0

\* client and server objects as their constructors leave them
Constructed ==
    /\ socket = "open"
    /\ context = "open"
    /\ built = [done |-> TRUE, fault |-> "none", exc |-> None, peerUp |-> FALSE]
    /\ closes = <<>>

Init ==
    /\ InitChannel
    /\ Constructed
    /\ rt = RTIdle
    /\ rpc = RpcNew(DefaultMaxRetries, DefaultBackoffTenths)
    /\ run = RunNew(FALSE, 0)
    /\ rc = RcNew

Next ==
    \/ \E obs \in Observations : ClientCall(obs)
    \/ ClientSendOk
    \/ ClientSendRefused
    \/ ClientSendFault
    \/ ClientRecvReply
    \/ ClientRecvTimeout
    \/ ClientRecvFault
    \/ ServerBind
    \/ ServerRecv
    \/ ServerRecvRefused
    \/ ServerRecvFault
    \/ ServerHandle
    \/ ServerInterrupt
    \/ \E doc \in ForeignDocs : ForeignSend(doc)
    \/ \E doc \in MalformedReplies : AlienAnswer(doc)

Spec == Init /\ [][Next]_vars

\* the client from before its construction to after its close()
InitLifecycle ==
    /\ InitChannel
    /\ socket = "none"
    /\ context = "none"
    /\ built = [done |-> FALSE, fault |-> "none", exc |-> None, peerUp |-> FALSE]
    /\ closes = <<>>
    /\ rt = RTIdle
    /\ rpc = RpcNew(DefaultMaxRetries, DefaultBackoffTenths)
    /\ run = RunNew(FALSE, 0)
    /\ rc = RcNew

\* construction, calls and close() of one client, against a server that binds
\* and serves or is never there
NextLifecycle ==
    \/ \E fault \in InitFaults : ClientConstruct(fault)
    \/ \E obs \in Observations : ClientCall(obs)
    \/ ClientSendOk
    \/ ClientSendRefused
    \/ ClientSendClosed
    \/ ClientRecvReply
    \/ ClientRecvTimeout
    \/ ClientClose
    \/ ClientTerm
    \/ ServerBind
    \/ ServerRecv
    \/ ServerHandle

SpecLifecycle == InitLifecycle /\ [][NextLifecycle]_vars

\* The thread inside close() keeps running: context.term() returns as soon as
\* nothing holds it back. The server promises nothing, not even to be there.
SpecCloseLive == InitLifecycle /\ [][NextLifecycle]_vars /\ WF_vars(ClientTerm)

\* one observation encoded by the client and decoded by the server
InitRoundTrip ==
    /\ InitChannel
    /\ Constructed
    /\ rt \in { [RTIdle EXCEPT !.pc = "obs", !.obs = o] : o \in RTObservations }
    /\ rpc = RpcNew(DefaultMaxRetries, DefaultBackoffTenths)
    /\ run = RunNew(FALSE, 0)
    /\ rc = RcNew

NextRoundTrip ==
    \/ EncodeStep
    \/ DecodeStep
    \/ ProcessObservationStep

SpecRoundTrip == InitRoundTrip /\ [][NextRoundTrip]_vars

\* one RemotePolicyClient used in a with block, under every configuration
InitRemotePolicy ==
    /\ InitChannel
    /\ Constructed
    /\ rt = RTIdle
    /\ rpc \in RpcConfigs
    /\ run = RunNew(FALSE, 0)
    /\ rc = RcNew

NextRemotePolicy ==
    \/ RpcSelect
    \/ \E resp \in Responses : RpcPostOk(resp)
    \/ RpcPostFail
    \/ RpcClose
    \/ RpcExit

SpecRemotePolicy == InitRemotePolicy /\ [][NextRemotePolicy]_vars

\* one execution of run.py's main, dry or not, for every length of run
InitRun ==
    /\ InitChannel
    /\ Constructed
    /\ rt = RTIdle
    /\ rpc = RpcNew(DefaultMaxRetries, DefaultBackoffTenths)
    /\ run \in { RunNew(dry, ticks) : dry \in BOOLEAN, ticks \in 1..MaxTicks }
    /\ rc = RcNew

NextRun ==
    \/ \E exc \in PrepareExceptions : RunPrepare(exc)
    \/ \E exc \in RobotExceptions : RunConnect(exc)
    \/ \E exc \in RobotExceptions : RunCalibrate(exc)
    \/ RunEnterControl
    \/ Signal
    \/ ControlStep
    \/ \E exc \in LoopExceptions : ControlEnd(exc)
    \/ \E raises \in BOOLEAN : RunExitContext(raises)

SpecRun == InitRun /\ [][NextRun]_vars

\* one execution of remote_client.py's main
InitRemoteClient == Init

NextRemoteClient ==
    \/ \E exc \in SetupExceptions : RcSetup(exc)
    \/ \E exc \in ConstructExceptions : RcConstruct(exc)
    \/ \E exc \in RobotExceptions : RcConnect(exc)
    \/ \E fallback \in BOOLEAN : RcLoopStep(fallback)
    \/ \E exc \in RobotExceptions : RcLoopExit(exc)
    \/ \E returns \in BOOLEAN : RcFinallyClose(returns)
    \/ \E exc \in RobotExceptions : RcFinallyDisconnect(exc)

SpecRemoteClient == InitRemoteClient /\ [][NextRemoteClient]_vars

\* The steps of __call__ itself: the calling thread runs them without waiting
\* for anyone (send_json queues the request, recv_json is bounded by RCVTIMEO).
ClientStep ==
    \/ ClientSendOk
    \/ ClientSendRefused
    \/ ClientRecvReply
    \/ ClientRecvTimeout

\* one client and the server, with every failure of either, and no other peer
NextLive ==
    \/ \E obs \in Observations : ClientCall(obs)
    \/ ClientSendOk
    \/ ClientSendRefused
    \/ ClientSendFault
    \/ ClientRecvReply
    \/ ClientRecvTimeout
    \/ ClientRecvFault
    \/ ServerBind
    \/ ServerRecv
    \/ ServerRecvRefused
    \/ ServerRecvFault
    \/ ServerHandle
    \/ ServerInterrupt
    \/ \E doc \in MalformedReplies : AlienAnswer(doc)

\* The client's thread keeps running; the server and the network promise nothing.
SpecLive == Init /\ [][NextLive]_vars /\ WF_vars(ClientStep)
====
